---- MODULE Spec2Model ----
(***************************************************************************)
(* Nelder-Mead minimizer (antonylsg/nelder-mead-rs).                       *)
(*                                                                         *)
(* Two programs are modelled, selected by `prog`:                          *)
(*   "minimize": one call of Minimizer::minimize (src/src/minimizer.rs),   *)
(*               one action per branch of the loop body;                   *)
(*   "simplex" : a Simplex value driven through its methods                *)
(*               (src/src/simplex.rs): new, sort_unstable, centroid,       *)
(*               shrink, update.                                           *)
(*                                                                         *)
(* f64 values are modelled as exact rationals <<num, den>> (den > 0, in    *)
(* lowest terms): rounding is abstracted away, every other step of the     *)
(* arithmetic is computed as the code computes it.                         *)
(***************************************************************************)
EXTENDS Integers, Sequences, FiniteSets, TLC

VARIABLES prog, self, func, x0, pairs, centroid, iter, pc, result, last

vars == <<prog, self, func, x0, pairs, centroid, iter, pc, result, last>>

(***************************************************************************)
(* Bounds of the model.                                                    *)
(***************************************************************************)
\* largest dimension of the seed
MaxDim == 2
\* largest per-dimension iteration cap (Minimizer.max) a run is given
MaxMax == 2
\* largest number of Simplex method calls after Simplex::new
MaxOps == 2

(***************************************************************************)
(* f64 arithmetic, as exact rationals.  The arithmetic is written as       *)
(* functions so that every argument is evaluated once.                     *)
(***************************************************************************)
Q == Int \X Int

Abs(i) == IF i < 0 THEN -i ELSE i

GCD[a \in Nat, b \in Nat] == IF b = 0 THEN a ELSE GCD[b, a % b]

rat[n \in Int, d \in Int] == <<n \div GCD[Abs(n), d], d \div GCD[Abs(n), d]>>

Rat(n, d) == rat[n, d]

Zero == <<0, 1>>
One == <<1, 1>>

RNeg(x) == <<-x[1], x[2]>>

lcm[a \in Nat, b \in Nat] == (a \div GCD[a, b]) * b

radd[x \in Q, y \in Q] ==
  rat[x[1] * (lcm[x[2], y[2]] \div x[2]) + y[1] * (lcm[x[2], y[2]] \div y[2]),
      lcm[x[2], y[2]]]

RAdd(x, y) == radd[x, y]

RSub(x, y) == radd[x, RNeg(y)]

rmul[x \in Q, y \in Q] ==
  <<(x[1] \div GCD[Abs(x[1]), y[2]]) * (y[1] \div GCD[Abs(y[1]), x[2]]),
    (x[2] \div GCD[Abs(y[1]), x[2]]) * (y[2] \div GCD[Abs(x[1]), y[2]])>>

RMul(x, y) == rmul[x, y]

\* x < y, by the integer parts and then the reciprocals of the fractional
\* parts (no product is formed)
rlt[x \in Q, y \in Q] ==
  IF x[1] \div x[2] # y[1] \div y[2] THEN x[1] \div x[2] < y[1] \div y[2]
  ELSE IF y[1] % y[2] = 0 THEN FALSE
  ELSE IF x[1] % x[2] = 0 THEN TRUE
  ELSE rlt[<<y[2], y[1] % y[2]>>, <<x[2], x[1] % x[2]>>]

RLt(x, y) == rlt[x, y]

RLe(x, y) == ~rlt[y, x]

RAbs(x) == <<Abs(x[1]), x[2]>>

RRecip(k) == rat[1, k]

(***************************************************************************)
(* Array1<f64> / Vector<A>: elementwise arithmetic.                        *)
(***************************************************************************)
V == Seq(Q)

VZeros(dim) == [i \in 1..dim |-> Zero]

vadd[u \in V, v \in V] == [i \in 1..Len(u) |-> radd[u[i], v[i]]]

VAdd(u, v) == vadd[u, v]

vsub[u \in V, v \in V] == [i \in 1..Len(u) |-> radd[u[i], RNeg(v[i])]]

VSub(u, v) == vsub[u, v]

vmul[v \in V, s \in Q] == [i \in 1..Len(v) |-> rmul[v[i], s]]

VMul(v, s) == vmul[v, s]

\* self += rhs * a
scaled_add[v \in V, a \in Q, rhs \in V] ==
  [i \in 1..Len(v) |-> radd[rmul[rhs[i], a], v[i]]]

ScaledAdd(v, a, rhs) == scaled_add[v, a, rhs]

VSum[v \in V] == IF v = <<>> THEN Zero ELSE radd[v[1], VSum[Tail(v)]]

(***************************************************************************)
(* Objective functions the caller may pass.                                *)
(***************************************************************************)
Funcs == {"square", "abs", "sumabs", "linear", "flat", "step"}

objective[f \in Funcs, x \in V] ==
  CASE f = "square" -> rmul[x[1], x[1]]
    [] f = "abs"    -> RAbs(x[1])
    [] f = "sumabs" -> VSum[[i \in 1..Len(x) |-> RAbs(x[i])]]
    [] f = "linear" -> VSum[x]
    [] f = "flat"   -> Zero
    [] f = "step"   -> IF rlt[x[1], Zero] THEN <<-1, 1>> ELSE Zero

Objective(f, x) == objective[f, x]

(***************************************************************************)
(* Pairs and the sort.                                                     *)
(***************************************************************************)
PairT == [f : Q, x : V]

Pairs == Seq(PairT)

Pair(f, x) == [f |-> f, x |-> x]

\* p goes after every element that does not compare greater (stable)
Insert[s \in Pairs, p \in PairT] ==
  IF s = <<>> THEN <<p>>
  ELSE IF rlt[p.f, s[1].f] THEN <<p>> \o s
  ELSE <<s[1]>> \o Insert[Tail(s), p]

sort_by[ps \in Pairs] ==
  IF ps = <<>> THEN <<>>
  ELSE Insert[sort_by[SubSeq(ps, 1, Len(ps) - 1)], ps[Len(ps)]]

SortBy(ps) == sort_by[ps]

IsSorted(ps) == \A i \in 1..(Len(ps) - 1) : RLe(ps[i].f, ps[i + 1].f)

First(ps) == ps[1]
Last(ps) == ps[Len(ps)]
SecondWorst(ps) == ps[Len(ps) - 1]

\* a push without the pop
UpdateWithoutPop(ps, pair) == Append(ps, pair)

\* the pop takes the first pair instead of the last
UpdateBest(ps, pair) == Append(Tail(ps), pair)

\* pairs.pop(); pairs.push(pair)
update[ps \in Pairs, pair \in PairT] ==
  Append(SubSeq(ps, 1, Len(ps) - 1), pair)

Update(ps, pair) == update[ps, pair]

\* mean of the points of all pairs but the last
SumPoints[ps \in Pairs, dim \in Nat] ==
  IF ps = <<>> THEN VZeros(dim)
  ELSE vadd[SumPoints[SubSeq(ps, 1, Len(ps) - 1), dim], ps[Len(ps)].x]

Centroid(ps, dim) ==
  vmul[SumPoints[SubSeq(ps, 1, Len(ps) - 1), dim], RRecip(dim)]

(***************************************************************************)
(* Minimizer: the configuration and the steps of minimize.                 *)
(***************************************************************************)
\* the coefficients of Minimizer::default(), and a second set with a # 1
DefaultCoefficients ==
  [a |-> Rat(1, 1), b |-> Rat(1, 2), c |-> Rat(2, 1), d |-> Rat(1, 2),
   h |-> Rat(1, 20)]

Coefficients ==
  {DefaultCoefficients, [DefaultCoefficients EXCEPT !.a = Rat(1, 2)]}

\* tol: the default 1e-4 and a coarse one; max: 1..MaxMax instead of 200
Tolerances == {Rat(1, 10000), Rat(1, 2)}

Minimizers ==
  {[a |-> k.a, b |-> k.b, c |-> k.c, d |-> k.d, h |-> k.h,
    tol |-> t, max |-> mx] :
      k \in Coefficients, t \in Tolerances, mx \in 1..MaxMax}

\* the initial vertices: the seed, then the seed with coordinate idx moved
InitPoint(m, seed, idx) ==
  [seed EXCEPT ![idx] = IF seed[idx] = Zero THEN m.h ELSE RMul(seed[idx], m.h)]

InitPairs(m, f, seed) ==
  <<Pair(Objective(f, seed), seed)>> \o
  [idx \in 1..Len(seed) |->
     Pair(Objective(f, InitPoint(m, seed, idx)), InitPoint(m, seed, idx))]

\* self.max * x0.dim()
Cap(m, seed) == m.max * Len(seed)

Reflect(m, c, xh) == VSub(VMul(c, RAdd(One, m.a)), VMul(xh, m.a))

\* the expansion scaled by the reflection parameter
ExpandByReflection(m, c, xr) ==
  VAdd(VMul(c, RSub(One, m.a)), VMul(xr, m.a))

Expand(m, c, xr) == VAdd(VMul(c, RSub(One, m.c)), VMul(xr, m.c))

ContractOutside(m, c, xr) == VAdd(VMul(c, RSub(One, m.b)), VMul(xr, m.b))

ContractInside(m, c, xh) == VAdd(VMul(c, RSub(One, m.b)), VMul(xh, m.b))

\* the points of all pairs but the first move towards the first; the
\* values are left as they are
ShrinkPoints(m, ps) ==
  [j \in 1..Len(ps) |->
     IF j = 1 THEN ps[j]
     ELSE Pair(ps[j].f,
               ScaledAdd(VMul(ps[j].x, m.d), RSub(One, m.d), ps[1].x))]

\* centroid.scaled_add(inv_dim, old_xh - new_xh)
UpdateCentroid(c, inv_dim, old_xh, new_xh) ==
  ScaledAdd(c, inv_dim, VSub(old_xh, new_xh))

\* centroid = (1 - d) * xl + d * centroid
ShrinkCentroid(m, xl, c) == VAdd(VMul(xl, RSub(One, m.d)), VMul(c, m.d))

\* (fh - fl).abs() <= self.tol
Converged(m, ps) == RLe(RAbs(RSub(Last(ps).f, First(ps).f)), m.tol)

Eval(op, f, x) == [op |-> op, x |-> x, f |-> Objective(f, x)]

\* the trial points of one pass of the loop body and the branch it takes,
\* on the sorted pairs ps with centroid c
Trials(m, f, ps, c) ==
  LET fh == Last(ps).f
      xh == Last(ps).x
      xr == Reflect(m, c, xh)
      fr == Objective(f, xr)
      fs == SecondWorst(ps).f
      fl == First(ps).f
      xe == Expand(m, c, xr)
      fe == Objective(f, xe)
      outside == RLt(fr, fh)
      xc == IF outside THEN ContractOutside(m, c, xr)
            ELSE ContractInside(m, c, xh)
      fc == Objective(f, xc)
      min == IF RLt(fr, fh) THEN fr ELSE fh
  IN IF RLt(fr, fs)
     THEN IF RLt(fr, fl)
          THEN IF RLt(fe, fl)
               THEN [branch |-> "expansion", cand |-> Pair(fe, xe),
                     evals |-> <<Eval("reflection", f, xr),
                                 Eval("expansion", f, xe)>>]
               ELSE [branch |-> "expansion_rejected", cand |-> Pair(fr, xr),
                     evals |-> <<Eval("reflection", f, xr),
                                 Eval("expansion", f, xe)>>]
          ELSE [branch |-> "reflection", cand |-> Pair(fr, xr),
                evals |-> <<Eval("reflection", f, xr)>>]
     ELSE IF RLt(fc, min)
          THEN [branch |-> IF outside THEN "contraction_outside"
                           ELSE "contraction_inside",
                cand |-> Pair(fc, xc),
                evals |-> <<Eval("reflection", f, xr),
                            Eval("contraction", f, xc)>>]
          ELSE [branch |-> "shrinkage", cand |-> Pair(fh, xh),
                evals |-> <<Eval("reflection", f, xr),
                            Eval("contraction", f, xc)>>]

\* the pairs and the centroid after the branch t: shrink (if taken),
\* pull update, sort, update centroid
Pull(m, ps, c, t) ==
  LET inv_dim == RRecip(Len(c))
      old_xh == Last(ps).x
      moved == IF t.branch = "shrinkage" THEN ShrinkPoints(m, ps) ELSE ps
      newps == SortBy(Update(moved, t.cand))
      new_xh == Last(newps).x
      newc ==
        IF t.branch = "shrinkage"
        THEN UpdateCentroid(ShrinkCentroid(m, First(ps).x, c), inv_dim,
                            old_xh, new_xh)
        ELSE UpdateCentroid(c, inv_dim, old_xh, new_xh)
  IN [branch |-> t.branch, pairs |-> newps, centroid |-> newc,
      cand |-> t.cand, moved |-> moved, evals |-> t.evals,
      old_pairs |-> ps, old_centroid |-> c]

\* one pass of the loop body
Body(m, f, ps, c) ==
  CHOOSE b \in {Pull(m, ps, c, t) : t \in {Trials(m, f, ps, c)}} : TRUE

NoLast ==
  [branch |-> "none", pairs |-> <<>>, centroid |-> <<>>, cand |-> <<>>,
   moved |-> <<>>, evals |-> <<>>, old_pairs |-> <<>>, old_centroid |-> <<>>]

NoResult == [tag |-> "None"]

\* Ok(Output { f_min, x_min, iter })
Ok(ps, it) ==
  [tag |-> "Ok", f_min |-> First(ps).f, x_min |-> First(ps).x, iter |-> it]

\* Err(()): the unit value has no field
Err == [tag |-> "Err"]

(***************************************************************************)
(* Simplex (src/src/simplex.rs).                                           *)
(***************************************************************************)
\* the Minimizer fields Simplex reads: d, step, step_zero
SimplexMinimizers ==
  {[d |-> Rat(1, 2), step |-> Rat(1, 100), step_zero |-> Rat(1, 4000)]}

SimplexNewPoint(m, slice, idx) ==
  [slice EXCEPT ![idx] = IF slice[idx] = Zero THEN m.step_zero
                          ELSE RMul(slice[idx], RAdd(One, m.step))]

SimplexNew(m, f, slice) ==
  <<Pair(Objective(f, slice), slice)>> \o
  [idx \in 1..Len(slice) |->
     Pair(Objective(f, SimplexNewPoint(m, slice, idx)),
          SimplexNewPoint(m, slice, idx))]

\* sort_unstable_by: some ordering of the pairs that is ascending in f
SortUnstable(ps) ==
  {q \in {[i \in 1..Len(ps) |-> ps[p[i]]] : p \in Permutations(1..Len(ps))} :
     IsSorted(q)}

\* a shrink that also visits the first pair
ShrinkTargetsAll(ps) == 1..Len(ps)

\* self.pairs.iter_mut().skip(1)
ShrinkTargets(ps) == 2..Len(ps)

\* every pair but the first moves towards the first and is evaluated again
SimplexShrink(m, f, ps) ==
  [j \in 1..Len(ps) |->
     IF j \in ShrinkTargets(ps)
     THEN Pair(Objective(f, ScaledAdd(VMul(ps[j].x, m.d), RSub(One, m.d),
                                      ps[1].x)),
               ScaledAdd(VMul(ps[j].x, m.d), RSub(One, m.d), ps[1].x))
     ELSE ps[j]]

\* the evaluations of the objective a shrink of ps makes, in order
ShrinkEvals(m, f, ps) ==
  [k \in 1..Cardinality(ShrinkTargets(ps)) |->
     Eval("shrink", f,
          ScaledAdd(VMul(ps[k + Len(ps) - Cardinality(ShrinkTargets(ps))].x,
                         m.d),
                    RSub(One, m.d), ps[1].x))]

(***************************************************************************)
(* Inputs.                                                                 *)
(***************************************************************************)
\* the objectives the Simplex methods are driven with
SimplexFuncs == {"abs", "sumabs", "linear"}

SeedVals == {Rat(0, 1), Rat(1, 1), Rat(-2, 1)}

Seeds == UNION {[1..n -> SeedVals] : n \in 1..MaxDim}

\* Minimizer::default()
DefaultMinimizer ==
  [a |-> Rat(1, 1), b |-> Rat(1, 2), c |-> Rat(2, 1), d |-> Rat(1, 2),
   h |-> Rat(1, 20), tol |-> Rat(1, 10000), max |-> 200]

\* the tests whose objective is rational: minimize_square_1d, minimize_abs
Tests == {<<"square", <<One>>>>, <<"abs", <<One>>>>}

Init ==
  /\ \/ /\ prog = "minimize"
        /\ self \in Minimizers
        /\ func \in Funcs
        /\ x0 \in Seeds
     \/ /\ prog = "minimize"
        /\ self = DefaultMinimizer
        /\ \E t \in Tests : func = t[1] /\ x0 = t[2]
     \/ /\ prog = "simplex"
        /\ self \in SimplexMinimizers
        /\ func \in SimplexFuncs
        /\ x0 \in Seeds
  /\ pairs = <<>>
  /\ centroid = <<>>
  /\ iter = 0
  /\ pc = "init"
  /\ result = NoResult
  /\ last = NoLast

(***************************************************************************)
(* Minimizer::minimize.                                                    *)
(***************************************************************************)
\* Init, Sort, Centroid
Start ==
  /\ prog = "minimize"
  /\ pc = "init"
  /\ \E ps \in {SortBy(InitPairs(self, func, x0))} :
       /\ pairs' = ps
       /\ centroid' = Centroid(ps, Len(x0))
  /\ pc' = "loop"
  /\ UNCHANGED <<prog, self, func, x0, iter, result, last>>

\* the loop body taking branch br, then the test that ends the loop
Iteration(br) ==
  /\ pc = "loop"
  /\ iter < Cap(self, x0)
  /\ \E b \in {Body(self, func, pairs, centroid)} :
       /\ b.branch = br
       /\ pairs' = b.pairs
       /\ centroid' = b.centroid
       /\ last' = b
       /\ IF Converged(self, b.pairs)
          THEN /\ result' = Ok(b.pairs, iter)
               /\ pc' = "done"
               /\ iter' = iter
          ELSE /\ result' = result
               /\ pc' = "loop"
               /\ iter' = iter + 1
  /\ UNCHANGED <<prog, self, func, x0>>

Reflection ==
  /\ prog = "minimize"
  /\ Iteration("reflection")

Expansion ==
  /\ prog = "minimize"
  /\ Iteration("expansion")

ExpansionRejected ==
  /\ prog = "minimize"
  /\ Iteration("expansion_rejected")

ContractionOutside ==
  /\ prog = "minimize"
  /\ Iteration("contraction_outside")

ContractionInside ==
  /\ prog = "minimize"
  /\ Iteration("contraction_inside")

Shrinkage ==
  /\ prog = "minimize"
  /\ Iteration("shrinkage")

\* the loop ran self.max * x0.dim() times
MaxIterFailure ==
  /\ prog = "minimize"
  /\ pc = "loop"
  /\ iter = Cap(self, x0)
  /\ result' = Err
  /\ pc' = "done"
  /\ UNCHANGED <<prog, self, func, x0, pairs, centroid, iter, last>>

(***************************************************************************)
(* The methods of Simplex.                                                 *)
(***************************************************************************)
New ==
  /\ prog = "simplex"
  /\ pc = "init"
  /\ pairs' = SimplexNew(self, func, x0)
  /\ pc' = "api"
  /\ UNCHANGED <<prog, self, func, x0, centroid, iter, result, last>>

Call(op) ==
  /\ prog = "simplex"
  /\ pc = "api"
  /\ iter < MaxOps
  /\ iter' = iter + 1
  /\ last' = [NoLast EXCEPT !.branch = op, !.old_pairs = pairs]
  /\ UNCHANGED <<prog, self, func, x0, pc, result>>

SimplexSortUnstable ==
  /\ Call("sort_unstable")
  /\ pairs' \in SortUnstable(pairs)
  /\ UNCHANGED centroid

SimplexCentroid ==
  /\ Call("centroid")
  /\ centroid' = Centroid(pairs, Len(x0))
  /\ UNCHANGED pairs

SimplexShrinkCall ==
  /\ prog = "simplex"
  /\ pc = "api"
  /\ iter < MaxOps
  /\ iter' = iter + 1
  /\ \E ps \in {SimplexShrink(self, func, pairs)} :
       /\ pairs' = ps
       /\ last' = [NoLast EXCEPT !.branch = "shrink", !.old_pairs = pairs,
                                 !.evals = ShrinkEvals(self, func, pairs)]
  /\ UNCHANGED <<prog, self, func, x0, pc, result, centroid>>

\* the pairs a caller hands to update: the objective at the seed or at 0
UpdatePoints == {x0, VZeros(Len(x0))}

SimplexUpdate ==
  /\ Call("update")
  /\ \E x \in UpdatePoints : pairs' = Update(pairs, Pair(Objective(func, x), x))
  /\ UNCHANGED centroid

Next ==
  \/ Start
  \/ Reflection
  \/ Expansion
  \/ ExpansionRejected
  \/ ContractionOutside
  \/ ContractionInside
  \/ Shrinkage
  \/ MaxIterFailure
  \/ New
  \/ SimplexSortUnstable
  \/ SimplexCentroid
  \/ SimplexShrinkCall
  \/ SimplexUpdate

Spec == Init /\ [][Next]_vars

(***************************************************************************)
(* Properties.                                                             *)
(***************************************************************************)
Dim == Len(x0)

\* an iteration of minimize has run; `last` holds its trace
Ran == prog = "minimize" /\ last.branch # "none"

\* test_f = |Wt.value - B.value|
TestF(ps) == RAbs(RSub(Last(ps).f, First(ps).f))

\* test_x <= t, test_x the largest |coordinate| of Wt.point - B.point
TestXWithin(ps, t) ==
  \A i \in 1..Len(First(ps).x) :
    RLe(RAbs(RSub(Last(ps).x[i], First(ps).x[i])), t)

\* the code has one tolerance; tol_x is taken equal to it (both default
\* to 1e-4)
TolX == self.tol

Count(ps, p) == Cardinality({i \in DOMAIN ps : ps[i] = p})

SameVertices(ps, qs) ==
  /\ Len(ps) = Len(qs)
  /\ \A i \in DOMAIN ps : Count(ps, ps[i]) = Count(qs, ps[i])

Points(ps) == [i \in DOMAIN ps |-> ps[i].x]

\* C1: minimize returns success at an iteration iff, on the simplex sorted
\* at the end of that iteration, test_f <= tol_f and test_x <= tol_x; the
\* returned f_min and x_min are the value and point of the first vertex.
C1_SuccessIffBothTests ==
  Ran =>
    /\ (result.tag = "Ok") <=>
         (RLe(TestF(pairs), self.tol) /\ TestXWithin(pairs, TolX))
    /\ result.tag = "Ok" =>
         (result.f_min = First(pairs).f /\ result.x_min = First(pairs).x)

\* C2: a call ends either in success with iter < n*max_iter, or, after
\* exactly n*max_iter iterations, in a failure whose value carries the cap
\* n*max_iter.
C2_OutcomeCarriesCap ==
  (prog = "minimize" /\ pc = "done") =>
    \/ result.tag = "Ok" /\ result.iter < Cap(self, x0)
    \/ /\ result.tag = "Err"
       /\ iter = Cap(self, x0)
       /\ DOMAIN result = {"tag", "cap"}
       /\ result.cap = Cap(self, x0)

\* C3: the simplex holds exactly n+1 vertices after construction and before
\* and after every iteration, whichever branch is taken (and after every
\* method of Simplex; after a shrink, before the update, too).
C3_DimensionInvariant ==
  /\ pc # "init" => Len(pairs) = Dim + 1
  /\ Ran => (Len(last.old_pairs) = Dim + 1 /\ Len(last.moved) = Dim + 1)

C3_Witness ==
  /\ Ran
  /\ last.branch = "shrinkage"
  /\ Dim = 2
  /\ iter >= 2
  /\ Len(pairs) = 3

\* C4: with the default configuration, for the objectives of the tests,
\* minimize returns success and f_min is within 1e-9 of the true minimum
\* (stated for the two rational objectives, x0^2 and |x0| from [1.0], whose
\* minimum is 0).
C4_TestsWithin1e9 ==
  (prog = "minimize" /\ self = DefaultMinimizer /\ <<func, x0>> \in Tests
     /\ pc = "done") =>
    /\ result.tag = "Ok"
    /\ RLt(RAbs(RSub(result.f_min, Zero)), Rat(1, 1000000000))

\* the order of the evaluations of one iteration: the reflection, then at
\* most one expansion or contraction, then the shrink's
EvalsInOrder(evals) ==
  /\ Len(evals) >= 1 => evals[1].op = "reflection"
  /\ Len(evals) >= 2 => evals[2].op \in {"expansion", "contraction"}
  /\ \A i \in 3..Len(evals) : evals[i].op = "shrink"

\* C5 (as claimed): in every iteration the objective is invoked at least 2
\* and at most n+2 times, in order.
C5_TwoToNPlusTwoEvals ==
  Ran =>
    /\ Len(last.evals) >= 2
    /\ Len(last.evals) <= Dim + 2
    /\ EvalsInOrder(last.evals)

\* C5 (amended): in every iteration the objective is invoked at least 1 and
\* at most n+2 times, in order: once for the reflection, then at most once
\* for an expansion or a contraction; a shrink invokes it at most n times.
C5_OneToNPlusTwoEvals ==
  /\ Ran =>
       /\ Len(last.evals) >= 1
       /\ Len(last.evals) <= Dim + 2
       /\ EvalsInOrder(last.evals)
  /\ (prog = "simplex" /\ last.branch = "shrink") =>
       /\ Len(last.evals) <= Dim
       /\ \A i \in DOMAIN last.evals : last.evals[i].op = "shrink"

C5_Witness ==
  /\ Ran
  /\ last.branch = "reflection"
  /\ Len(last.evals) = 1
  /\ Dim = 2

\* C6 (as claimed): one more iteration on a simplex that satisfies the
\* convergence test changes the best value by less than tol_f.
C6_ExtraIterationWithinTol ==
  (Ran /\ RLe(TestF(last.old_pairs), self.tol)
       /\ TestXWithin(last.old_pairs, TolX)) =>
    RLt(RAbs(RSub(First(pairs).f, First(last.old_pairs).f)), self.tol)

\* C6 (amended): one more iteration on a simplex that satisfies the
\* convergence test never raises the best value.
C6_ExtraIterationNeverWorse ==
  (Ran /\ Converged(self, last.old_pairs)) =>
    RLe(First(pairs).f, First(last.old_pairs).f)

C6_Witness ==
  /\ Ran
  /\ Converged(self, last.old_pairs)
  /\ RLt(First(pairs).f, First(last.old_pairs).f)

\* the points the claim expects after a shrink: the best where it was,
\* every other at d*point + (1-d)*best_point
ShrunkPoints(m, ps) ==
  [j \in DOMAIN ps |->
     IF j = 1 THEN ps[1].x
     ELSE VAdd(VMul(ps[j].x, m.d), VMul(ps[1].x, RSub(One, m.d)))]

\* C7: when the contraction is rejected, the simplex after shrink, update
\* and sort holds the vertices of the simplex after the shrink alone: every
\* vertex but the best is at d*point + (1-d)*best_point.
C7_UpdateAfterShrinkIsNoOp ==
  (Ran /\ last.branch = "shrinkage") =>
    /\ SameVertices(pairs, last.moved)
    /\ SameVertices(Points(pairs), ShrunkPoints(self, last.old_pairs))

\* C8: the centroid an iteration uses is (1/n) times the sum of the points
\* of all vertices of the sorted simplex but the last.
C8_CentroidIsMean ==
  Ran => last.old_centroid = Centroid(last.old_pairs, Dim)

\* the replacement the claim describes, for the sorted pairs ps and the
\* centroid C; the outside contraction from W (as claimed) or from Xr
Replacement(m, f, ps, C, fromXr) ==
  LET W == Last(ps)
      Xr == VAdd(C, VMul(VSub(C, W.x), m.a))
      Fr == Objective(f, Xr)
      Xe == VAdd(C, VMul(VSub(Xr, C), m.c))
      Fe == Objective(f, Xe)
      Xc == IF RLt(Fr, W.f)
            THEN IF fromXr THEN VAdd(C, VMul(VSub(Xr, C), m.b))
                 ELSE VAdd(C, VMul(VSub(C, W.x), m.b))
            ELSE VAdd(C, VMul(VSub(W.x, C), m.b))
      Fc == Objective(f, Xc)
      mn == IF RLt(Fr, W.f) THEN Fr ELSE W.f
  IN IF RLt(Fr, SecondWorst(ps).f)
     THEN [shrink |-> FALSE,
           cand |-> IF RLt(Fr, First(ps).f) /\ RLt(Fe, First(ps).f)
                    THEN Pair(Fe, Xe) ELSE Pair(Fr, Xr)]
     ELSE IF RLt(Fc, mn)
          THEN [shrink |-> FALSE, cand |-> Pair(Fc, Xc)]
          ELSE [shrink |-> TRUE, cand |-> W]

Replaced(fromXr) ==
  LET r == Replacement(self, func, last.old_pairs, last.old_centroid, fromXr)
  IN /\ (last.branch = "shrinkage") <=> r.shrink
     /\ ~r.shrink =>
          /\ last.cand = r.cand
          /\ SameVertices(pairs,
                          Append(SubSeq(last.old_pairs, 1, Dim), r.cand))

\* C9 (as claimed): the vertex that replaces the worst is the expansion,
\* the reflection or the contraction point as the claim chooses them, the
\* outside contraction being Xc = C + b*(C - W.point), for all a, b, c.
C9_ReplacementAsClaimed == Ran => Replaced(FALSE)

\* C9 (amended): the same, the outside contraction being
\* Xc = C + b*(Xr - C), which is C + b*(C - W.point) only when a = 1.
C9_ReplacementFromXr == Ran => Replaced(TRUE)

C9_Witness ==
  /\ Ran
  /\ last.branch = "contraction_outside"
  /\ self.a # One
  /\ Replaced(TRUE)
  /\ ~Replaced(FALSE)

\* C10: after construction and at the end of every iteration every vertex's
\* stored value is the objective at its stored point, and on success
\* f_min = f(x_min).
C10_ValuesMatchPoints ==
  /\ pc # "init" =>
       \A i \in DOMAIN pairs : pairs[i].f = Objective(func, pairs[i].x)
  /\ result.tag = "Ok" => result.f_min = Objective(func, result.x_min)

====
